---- MODULE Spec2Model ----
(***************************************************************************)
(* Order workflow of the storefront (catalog/views.py, catalog/models.py): *)
(* checkout creates an Order, payment_page stores the payment receipt and  *)
(* notifies the operator, telegram_webhook maps button presses back to     *)
(* status changes.  Every request is served by its own worker; a worker    *)
(* loads the Order row into memory, changes the object and writes all its  *)
(* fields back with Order.save().                                          *)
(***************************************************************************)
EXTENDS Integers, Sequences, FiniteSets, TLC

VARIABLES
    orders,      \* the Order table: id -> row (status "none": no such row)
    pc,          \* per worker: the place of the request it is serving
    loc,         \* per worker: the request and the in-memory Order object
    last,        \* the request answered most recently: the return statement
                 \* taken, the response, the order and the action it applied
    calls,       \* the bot API requests made by the step taken most recently
    step,        \* the step taken most recently: the operation and its worker
    botToken,    \* settings.TELEGRAM_BOT_TOKEN is set
    chatId,      \* settings.TELEGRAM_CHAT_ID is set
    clientChat,  \* settings.TEST_CLIENT_CHAT_ID is set
    watches,     \* the Watch table: id -> live price
    shown        \* the operator's Telegram client: whether the operator is at
                 \* the chat, and the buttons it shows on each order's message

vars ==
    <<orders, pc, loc, last, calls, step, botToken, chatId, clientChat, watches, shown>>

config == <<botToken, chatId, clientChat, watches>>

(* ------------------------------ bounds -------------------------------- *)
MaxOrders == 1
MaxProcs == 2
MaxCart == 1
MaxLines == 2

Procs == 1..MaxProcs
OrderIds == 1..MaxOrders
\* ids a request may name: the rows that can exist and one that never does
AnyIds == 1..(MaxOrders + 1)
Files == {"r1", "r2"}
WatchIds == {1, 2}
Prices == {5, 10}
Quantities == {1, 2}
\* message ids an inbound event may carry: none, or the operator's message
MessageIds == {"none", "m1"}
\* what the network makes of a bot API request
Outcomes == {"ok", "rejected", "timeout"}

(* ------------------------------ Order --------------------------------- *)
STATUS_CHOICES ==
    {"awaiting_payment", "new", "accepted", "in_progress", "delivered", "cancelled"}

NoOrder ==
    [status |-> "none", receipt |-> "none", note |-> "", items |-> <<>>]

Exists(id) == id \in OrderIds /\ orders[id].status # "none"

\* Order.objects.create assigns the next free id
NextId == Cardinality({i \in OrderIds : orders[i].status # "none"}) + 1

\* Order.save(): UPDATE of every column of the row from the in-memory object;
\* the OrderItem rows are another table and stay as they are
SaveOrder(id, obj) ==
    [orders EXCEPT ![id] = [obj EXCEPT !.items = orders[id].items]]

(* ----------------------------- OrderItem ------------------------------- *)
\* TotalPrice, had it read the live price of the watch
TotalPriceLive(item) == watches[item.watch] * item.quantity

\* OrderItem.total_price
TotalPrice(item) == item.price * item.quantity

RECURSIVE SumPrices(_)
SumPrices(items) ==
    IF items = <<>> THEN 0 ELSE TotalPrice(Head(items)) + SumPrices(Tail(items))

\* Order.total_amount: the sum over the OrderItem rows of the order
TotalAmount(id) == SumPrices(orders[id].items)

\* A line of the cart iterator: the watch, the quantity and item["price"]
CartLines ==
    [watch : WatchIds, quantity : Quantities, price : Prices]

\* The line of the carts of the workflow specifications
PlainLine == [watch |-> 1, quantity |-> 1, price |-> 10]

PlainCarts == {[k \in 1..n |-> PlainLine] : n \in 0..MaxCart}

\* The carts of the pricing specification
AllCarts == UNION {[1..n -> CartLines] : n \in 0..MaxLines}

(* --------------------------- action tokens ----------------------------- *)
\* A callback_data string is a sequence of pieces; ":" is the delimiter piece.
Digits == <<"1", "2", "3", "4">>

\* f"{order.id}"
IdStr(n) == Digits[n]

\* int(s) reads a numeral whatever zeros lead it
RECURSIVE StripZeros(_)
StripZeros(s) == IF s # <<>> /\ s[1] = "0" THEN StripZeros(Tail(s)) ELSE s

\* int(s) as the id lookup applies it: -1 stands for ValueError
ParseInt(s) ==
    LET t == StripZeros(s) IN
    IF s = <<>> THEN -1
    ELSE IF t = <<>> THEN 0
    ELSE IF Len(t) = 1 /\ \E n \in 1..Len(Digits) : Digits[n] = t[1]
    THEN CHOOSE n \in 1..Len(Digits) : Digits[n] = t[1]
    ELSE -1

HasDelimiter(data) == \E i \in 1..Len(data) : data[i] = ":"

\* Malformed, had the handler tested only `not data`
MalformedEmptyOnly(data) == data = <<>>

\* `not data or ":" not in data`
Malformed(data) == data = <<>> \/ ~HasDelimiter(data)

\* data.split(":", 1); without a delimiter the unpacking raises ValueError
SplitToken(data) ==
    IF ~HasDelimiter(data) THEN [ok |-> FALSE, action |-> <<>>, order_id |-> <<>>]
    ELSE LET i == CHOOSE k \in 1..Len(data) :
                      data[k] = ":" /\ \A j \in 1..(k - 1) : data[j] # ":"
         IN [ok |-> TRUE,
             action |-> SubSeq(data, 1, i - 1),
             order_id |-> SubSeq(data, i + 1, Len(data))]

\* Token, had the word and the id been written without the ":" between them
TokenNoDelimiter(word, id) == <<word, IdStr(id)>>

\* f"{action}:{order.id}"
Token(word, id) == <<word, ":", IdStr(id)>>

\* The words the if/elif chain of telegram_webhook compares the action with
HandlerWords == {"accept", "cancel", "way", "deliver"}

\* The four words of the buttons, and one that no button carries
ActionWords == {"accept", "cancel", "way", "deliver", "approve"}

\* The tokens of requests: every word with every id; an order id that is no
\* number, is empty, or holds a second ":"; no ":" at all
Tokens ==
    {<<a, ":", IdStr(n)>> : a \in ActionWords, n \in AnyIds}
    \cup {<<"accept", ":", "x">>, <<"accept", ":">>,
          <<"accept", ":", IdStr(1), ":", IdStr(1)>>}
    \cup {<<>>, <<"accept">>, <<"accept", IdStr(1)>>}

\* The bodies POSTed to the webhook whose callback, if any, names a message
\* of msgs
BodiesWith(msgs) ==
    {[shape |-> s, hasData |-> FALSE, data |-> <<>>, cbId |-> FALSE, msg |-> "none"] :
        s \in {"nonjson", "notdict", "nocallback"}}
    \cup {[shape |-> "callback", hasData |-> d, data |-> IF d THEN t ELSE <<>>,
           cbId |-> c, msg |-> m] :
        d \in BOOLEAN, t \in Tokens, c \in BOOLEAN, m \in msgs}

\* The bodies of the workflow specifications: presses of the buttons of the
\* operator's message
Bodies == BodiesWith({"m1"})

\* Tokens whose order id is written with a leading zero, and the id 0
PaddedTokens ==
    {<<a, ":", "0", IdStr(n)>> : a \in HandlerWords, n \in OrderIds}
    \cup {<<"accept", ":", "0">>}

\* The bodies of the gateway specification
AllBodies ==
    BodiesWith(MessageIds)
    \cup {[shape |-> "callback", hasData |-> TRUE, data |-> t, cbId |-> c, msg |-> m] :
            t \in PaddedTokens, c \in BOOLEAN, m \in MessageIds}

(* ------------------------- transition engine --------------------------- *)
Rejected == "rejected"

\* `order.status in ("cancelled", "delivered")`
Terminal(status) == status \in {"cancelled", "delivered"}

\* The return statement that discards an event: the one of the guard on a
\* terminal status, or the else branch of the chain
RejectedAt(status) == IF Terminal(status) THEN "L454" ELSE "L485"

\* Dispatch, had the handler looked at the action alone
DispatchAnyStatus(status, action) ==
    IF action = <<"cancel">> THEN "cancelled"
    ELSE IF action = <<"accept">> THEN "accepted"
    ELSE IF action = <<"way">> THEN "in_progress"
    ELSE IF action = <<"deliver">> THEN "delivered"
    ELSE Rejected

\* Dispatch, had the deliver branch not tested the status
DispatchDeliverUnchecked(status, action) ==
    IF Terminal(status) THEN Rejected
    ELSE IF action = <<"cancel">> /\ status = "new" THEN "cancelled"
    ELSE IF action = <<"accept">> /\ status = "new" THEN "accepted"
    ELSE IF action = <<"way">> /\ status = "accepted" THEN "in_progress"
    ELSE IF action = <<"deliver">> THEN "delivered"
    ELSE Rejected

\* Dispatch, had the accept branch not tested the status
DispatchAcceptUnchecked(status, action) ==
    IF Terminal(status) THEN Rejected
    ELSE IF action = <<"cancel">> /\ status = "new" THEN "cancelled"
    ELSE IF action = <<"accept">> THEN "accepted"
    ELSE IF action = <<"way">> /\ status = "accepted" THEN "in_progress"
    ELSE IF action = <<"deliver">> /\ status = "in_progress" THEN "delivered"
    ELSE Rejected

\* Dispatch, had the way branch assigned the status of the deliver branch
DispatchWayDelivers(status, action) ==
    IF Terminal(status) THEN Rejected
    ELSE IF action = <<"cancel">> /\ status = "new" THEN "cancelled"
    ELSE IF action = <<"accept">> /\ status = "new" THEN "accepted"
    ELSE IF action = <<"way">> /\ status = "accepted" THEN "delivered"
    ELSE IF action = <<"deliver">> /\ status = "in_progress" THEN "delivered"
    ELSE Rejected

\* The status an event moves the order to: the guard on a terminal status and
\* the if/elif chain of telegram_webhook
Dispatch(status, action) ==
    IF Terminal(status) THEN Rejected
    ELSE IF action = <<"cancel">> /\ status = "new" THEN "cancelled"
    ELSE IF action = <<"accept">> /\ status = "new" THEN "accepted"
    ELSE IF action = <<"way">> /\ status = "accepted" THEN "in_progress"
    ELSE IF action = <<"deliver">> /\ status = "in_progress" THEN "delivered"
    ELSE Rejected

\* order.admin_comment = order.admin_comment or "..."
AdminComment(note, action) ==
    IF note # "" THEN note
    ELSE IF action = <<"cancel">> THEN "rejected"
    ELSE IF action = <<"accept">> THEN "confirmed"
    ELSE note

\* `order.status in ("accepted", "in_progress", "delivered", "cancelled")`
PaymentClosed(status) == status \in {"accepted", "in_progress", "delivered", "cancelled"}

\* NoFile, had the upload not been tested
NoFileNever(file) == FALSE

\* `if not screenshot`
NoFile(file) == file = "none"

\* HasReceipt, had the repeated-upload guard been left out
HasReceiptNever(obj) == FALSE

\* `if order.payment_screenshot`
HasReceipt(obj) == obj.receipt # "none"

(* ------------------------------ renderer ------------------------------- *)
\* BuildKeyboard, had it rendered the buttons of status new for every status
BuildKeyboardAnyStatus(status, id) == <<Token("accept", id), Token("cancel", id)>>

\* BuildKeyboard, had it written the words approve, reject and ship
BuildKeyboardEngineLiterals(status, id) ==
    IF status = "new" THEN <<Token("approve", id), Token("reject", id)>>
    ELSE IF status = "accepted" THEN <<Token("ship", id)>>
    ELSE IF status = "in_progress" THEN <<Token("deliver", id)>>
    ELSE <<>>

\* build_keyboard: the callback_data of the buttons, in their order
BuildKeyboard(status, id) ==
    IF status = "new" THEN <<Token("accept", id), Token("cancel", id)>>
    ELSE IF status = "accepted" THEN <<Token("way", id)>>
    ELSE IF status = "in_progress" THEN <<Token("deliver", id)>>
    ELSE <<>>

(* ------------------------------ gateway -------------------------------- *)
\* The payload of a bot API request: the order it is about, the buttons of
\* its reply_markup (none when it has no reply_markup), the message or chat
\* it addresses and its text
Payload(id, kb, msg, text) == [id |-> id, kb |-> kb, msg |-> msg, text |-> text]

\* TgApi, had it made the request without looking at the bot token
TgApiNoTokenTest(method, payload, saved, outcome) ==
    <<[method |-> method, payload |-> payload, saved |-> saved,
       sent |-> TRUE, ok |-> outcome = "ok"]>>

\* tg_api: without a bot token no HTTP request is made and the result is a
\* failure; otherwise one request is made, and the result is a failure when
\* the API rejects it or the network fails.  `saved` notes whether the
\* handler had saved the order when it made the call.
TgApi(method, payload, saved, outcome) ==
    <<[method |-> method, payload |-> payload, saved |-> saved,
       sent |-> botToken, ok |-> botToken /\ outcome = "ok"]>>

\* resp.get("ok") of the call just made
TgOk(call) == call[1].ok

\* `if cb_id: tg_api("answerCallbackQuery", ...)`, had it been left out
AckNever(body, outcome) == <<>>

\* `if cb_id: tg_api("answerCallbackQuery", ...)`
Ack(body, outcome) ==
    IF body.cbId
    THEN TgApi("answerCallbackQuery", Payload(0, <<>>, "callback", ""), FALSE, outcome)
    ELSE <<>>

\* _notify_client_if_possible: one sendMessage when a client chat id is known
NotifyClient(id, status, saved, outcome) ==
    IF clientChat
    THEN TgApi("sendMessage", Payload(id, <<>>, "client", status), saved, outcome)
    ELSE <<>>

\* send_telegram_order_notification: nothing without token or chat id; with a
\* receipt, sendPhoto with the keyboard and then sendMessage without a
\* reply_markup, whatever sendPhoto returned; otherwise sendMessage with the
\* keyboard
SendOrderNotification(id, obj, saved, photo, text) ==
    LET kb == BuildKeyboard(obj.status, id) IN
    IF ~botToken \/ ~chatId THEN <<>>
    ELSE IF obj.receipt # "none"
         THEN TgApi("sendPhoto", Payload(id, kb, "operator", obj.status), saved, photo)
              \o TgApi("sendMessage", Payload(id, <<>>, "operator", obj.status), saved, text)
         ELSE TgApi("sendMessage", Payload(id, kb, "operator", obj.status), saved, text)

\* EditMessage, had the text edit been made whatever the caption edit returned
EditMessageBoth(id, obj, msg, saved, caption, text) ==
    LET payload == Payload(id, BuildKeyboard(obj.status, id), msg, obj.status) IN
    TgApi("editMessageCaption", payload, saved, caption)
    \o TgApi("editMessageText", payload, saved, text)

\* telegram_webhook: editMessageCaption, and editMessageText with the same
\* text, keyboard, chat and message when the caption edit did not return ok
EditMessage(id, obj, msg, saved, caption, text) ==
    LET payload == Payload(id, BuildKeyboard(obj.status, id), msg, obj.status)
        first == TgApi("editMessageCaption", payload, saved, caption)
    IN  IF TgOk(first) THEN first
        ELSE first \o TgApi("editMessageText", payload, saved, text)

(* ------------------------- the operator's chat ------------------------- *)
\* The message id the model gives the message of an order that carries its
\* buttons, as the callbacks of its buttons report it
OrderMessage == "m1"

\* Nobody is at the operator's chat
NoOperator == [present |-> FALSE, kb |-> [i \in OrderIds |-> <<>>]]

\* The operator is at the chat, which has no message yet
AtChat == [present |-> TRUE, kb |-> [i \in OrderIds |-> <<>>]]

\* The delivered requests among cs that set the buttons of the message of
\* order i: a sendPhoto or sendMessage with a reply_markup that has buttons
\* makes the message, an edit of the message replaces its reply_markup
SetsButtons(cs, i) ==
    {k \in 1..Len(cs) :
        /\ cs[k].ok
        /\ cs[k].payload.id = i
        /\ \/ cs[k].method \in {"sendPhoto", "sendMessage"} /\ cs[k].payload.kb # <<>>
           \/ /\ cs[k].method \in {"editMessageCaption", "editMessageText"}
              /\ cs[k].payload.msg = OrderMessage}

\* The chat after the requests cs: the buttons of each message are those of
\* the last delivered request that set them
Display(sh, cs) ==
    IF ~sh.present THEN sh
    ELSE [sh EXCEPT !.kb =
             [i \in OrderIds |->
                 IF SetsButtons(cs, i) = {} THEN sh.kb[i]
                 ELSE LET k == CHOOSE n \in SetsButtons(cs, i) :
                                   \A m \in SetsButtons(cs, i) : m <= n
                      IN  cs[k].payload.kb]]

(* ------------------------------- state --------------------------------- *)
NoLoc ==
    [id |-> 0, obj |-> NoOrder, saved |-> FALSE, action |-> "", cart |-> <<>>,
     msg |-> "none"]

NoLast == [kind |-> "none", at |-> "none", resp |-> "none", id |-> 0, action |-> ""]

Init ==
    /\ orders = [i \in OrderIds |-> NoOrder]
    /\ pc = [h \in Procs |-> "idle"]
    /\ loc = [h \in Procs |-> NoLoc]
    /\ last = NoLast
    /\ calls = <<>>
    /\ step = [op |-> "none", h |-> 0]
    /\ botToken \in BOOLEAN
    /\ chatId \in BOOLEAN
    /\ clientChat \in BOOLEAN
    /\ watches = [w \in WatchIds |-> IF w = 1 THEN 10 ELSE 5]
    /\ shown = NoOperator

\* Workers are interchangeable: a request is taken by the lowest idle one
Free(h) == pc[h] = "idle" /\ \A g \in Procs : g < h => pc[g] # "idle"

AllIdle == \A h \in Procs : pc[h] = "idle"

\* The handler served by worker h returns: `at` names the return statement
Return(h, kind, at, resp, id, action) ==
    /\ last' = [kind |-> kind, at |-> at, resp |-> resp, id |-> id, action |-> action]
    /\ pc' = [pc EXCEPT ![h] = "idle"]
    /\ loc' = [loc EXCEPT ![h] = NoLoc]

(* ------------------------------ checkout ------------------------------- *)
\* checkout, up to Order.objects.create
Checkout(h, cart, valid) ==
    /\ Free(h)
    /\ step' = [op |-> "Checkout", h |-> h]
    /\ calls' = <<>>
    /\ IF cart = <<>> \/ ~valid
       THEN /\ Return(h, "checkout", "L340", "cart_errors", 0, "")
            /\ UNCHANGED orders
       ELSE /\ NextId \in OrderIds
            /\ orders' = [orders EXCEPT ![NextId] =
                              [NoOrder EXCEPT !.status = "awaiting_payment"]]
            /\ pc' = [pc EXCEPT ![h] = "co_items"]
            /\ loc' = [loc EXCEPT ![h] = [NoLoc EXCEPT !.id = NextId, !.cart = cart]]
            /\ UNCHANGED last
    /\ UNCHANGED <<config, shown>>

\* checkout: the OrderItem rows, cart.clear(), redirect to the payment page
CheckoutItems(h) ==
    /\ pc[h] = "co_items"
    /\ step' = [op |-> "CheckoutItems", h |-> h]
    /\ orders' = [orders EXCEPT ![loc[h].id].items = loc[h].cart]
    /\ calls' = <<>>
    /\ Return(h, "checkout", "L372", "redirect_payment", loc[h].id, "")
    /\ UNCHANGED <<config, shown>>

(* ---------------------------- payment_page ----------------------------- *)
\* payment_page, up to the assignment of the new status; `own` says whether
\* request.user is the user the order was created for
PaymentOpen(h, own, id, method, file) ==
    LET found == Exists(id) /\ own IN
    /\ Free(h)
    /\ step' = [op |-> "PaymentOpen", h |-> h]
    /\ calls' = <<>>
    /\ IF ~found THEN Return(h, "payment", "L384", "redirect_account", id, "")
       ELSE IF PaymentClosed(orders[id].status)
            THEN Return(h, "payment", "L388", "redirect_account", id, "")
       ELSE IF method = "GET" THEN Return(h, "payment", "L413", "payment_form", id, "")
       ELSE IF HasReceipt(orders[id])
            THEN Return(h, "payment", "L394", "redirect_account", id, "")
       ELSE IF NoFile(file) THEN Return(h, "payment", "L399", "redirect_payment", id, "")
       ELSE /\ pc' = [pc EXCEPT ![h] = "pp_save"]
            /\ loc' = [loc EXCEPT ![h] =
                          [NoLoc EXCEPT !.id = id, !.action = "submit_receipt",
                                        !.obj = [orders[id] EXCEPT !.receipt = file,
                                                                   !.status = "new"]]]
            /\ UNCHANGED last
    /\ UNCHANGED <<orders, config, shown>>

\* payment_page: order.save()
PaymentSave(h) ==
    /\ pc[h] = "pp_save"
    /\ step' = [op |-> "PaymentSave", h |-> h]
    /\ orders' = SaveOrder(loc[h].id, loc[h].obj)
    /\ loc' = [loc EXCEPT ![h].saved = TRUE]
    /\ pc' = [pc EXCEPT ![h] = "pp_notify"]
    /\ calls' = <<>>
    /\ UNCHANGED <<last, config, shown>>

\* payment_page: send_telegram_order_notification and the redirect
PaymentNotify(h) ==
    /\ pc[h] = "pp_notify"
    /\ step' = [op |-> "PaymentNotify", h |-> h]
    /\ \E photo, text \in Outcomes :
           calls' = SendOrderNotification(loc[h].id, loc[h].obj, loc[h].saved, photo, text)
    /\ Return(h, "payment", "L411", "redirect_account", loc[h].id, "submit_receipt")
    /\ shown' = Display(shown, calls')
    /\ UNCHANGED <<orders, config>>

(* --------------------------- telegram_webhook -------------------------- *)
\* the action of a token, when it is one word
ActionWord(parts) == IF Len(parts.action) = 1 THEN parts.action[1] ELSE ""

\* telegram_webhook, up to the end of the if/elif chain
WebhookReceive(h, body) ==
    LET data == IF body.hasData THEN body.data ELSE <<>>
        acks == {Ack(body, outcome) : outcome \in Outcomes}
        parts == SplitToken(data)
        id == ParseInt(parts.order_id)
        word == ActionWord(parts)
        target == Dispatch(orders[id].status, parts.action)
    IN
    /\ Free(h)
    /\ step' = [op |-> "WebhookReceive", h |-> h]
    /\ IF body.shape = "nonjson" THEN
            Return(h, "webhook", "L429", "ok200", 0, "") /\ calls' = <<>>
       ELSE IF body.shape = "notdict" THEN
            Return(h, "webhook", "L431", "error500", 0, "") /\ calls' = <<>>
       ELSE IF body.shape = "nocallback" THEN
            Return(h, "webhook", "L433", "ok200", 0, "") /\ calls' = <<>>
       ELSE IF Malformed(data) THEN
            Return(h, "webhook", "L446", "ok200", 0, "") /\ calls' \in acks
       ELSE IF ~parts.ok THEN
            Return(h, "webhook", "L448", "error500", 0, "") /\ calls' \in acks
       ELSE IF id = -1 THEN
            Return(h, "webhook", "L449", "error500", 0, "") /\ calls' \in acks
       ELSE IF ~Exists(id) THEN
            Return(h, "webhook", "L451", "ok200", id, "") /\ calls' \in acks
       ELSE IF target = Rejected THEN
            Return(h, "webhook", RejectedAt(orders[id].status), "ok200", id, "")
            /\ calls' \in acks
       ELSE /\ pc' = [pc EXCEPT ![h] = "wh_save"]
            /\ loc' = [loc EXCEPT ![h] =
                          [NoLoc EXCEPT !.id = id, !.action = word, !.msg = body.msg,
                                        !.obj = [orders[id] EXCEPT
                                                    !.status = target,
                                                    !.note = AdminComment(@, parts.action)]]]
            /\ calls' \in {ack \o NotifyClient(id, target, FALSE, outcome) :
                              ack \in acks, outcome \in Outcomes}
            /\ UNCHANGED last
    /\ UNCHANGED <<orders, config, shown>>

\* WebhookSave, had the handler written the order only when every bot API
\* call it had made returned ok
WebhookSaveUnlessFailed(h) ==
    /\ pc[h] = "wh_save"
    /\ step' = [op |-> "WebhookSave", h |-> h]
    /\ orders' = IF \E k \in 1..Len(calls) : ~calls[k].ok
                 THEN orders
                 ELSE SaveOrder(loc[h].id, loc[h].obj)
    /\ loc' = [loc EXCEPT ![h].saved = TRUE]
    /\ pc' = [pc EXCEPT ![h] = "wh_edit"]
    /\ calls' = <<>>
    /\ UNCHANGED <<last, config, shown>>

\* telegram_webhook: order.save()
WebhookSave(h) ==
    /\ pc[h] = "wh_save"
    /\ step' = [op |-> "WebhookSave", h |-> h]
    /\ orders' = SaveOrder(loc[h].id, loc[h].obj)
    /\ loc' = [loc EXCEPT ![h].saved = TRUE]
    /\ pc' = [pc EXCEPT ![h] = "wh_edit"]
    /\ calls' = <<>>
    /\ UNCHANGED <<last, config, shown>>

\* telegram_webhook: editMessageCaption, editMessageText when that failed,
\* and the response
WebhookEdit(h, caption, text) ==
    /\ pc[h] = "wh_edit"
    /\ step' = [op |-> "WebhookEdit", h |-> h]
    /\ calls' = EditMessage(loc[h].id, loc[h].obj, loc[h].msg, loc[h].saved, caption, text)
    /\ Return(h, "webhook", "L532", "ok200", loc[h].id, loc[h].action)
    /\ shown' = Display(shown, calls')
    /\ UNCHANGED <<orders, config>>

(* --------------------------- specifications ---------------------------- *)
\* A GET carries no file
PaymentRequests ==
    {<<"GET", "none">>} \cup {<<"POST", file>> : file \in Files \cup {"none"}}

Begin(h) ==
    \/ \E cart \in PlainCarts, valid \in BOOLEAN : Checkout(h, cart, valid)
    \/ \E own \in BOOLEAN, id \in AnyIds, r \in PaymentRequests :
           PaymentOpen(h, own, id, r[1], r[2])
    \/ \E body \in Bodies : WebhookReceive(h, body)

Continue(h) ==
    \/ CheckoutItems(h)
    \/ PaymentSave(h)
    \/ PaymentNotify(h)
    \/ WebhookSave(h)
    \/ \E caption, text \in Outcomes : WebhookEdit(h, caption, text)

\* Requests served concurrently
Next == \E h \in Procs : Begin(h) \/ Continue(h)

Spec == Init /\ [][Next]_vars

\* Requests served one after the other
SeqNext == \E h \in Procs : (AllIdle /\ Begin(h)) \/ Continue(h)

SeqSpec == Init /\ [][SeqNext]_vars

\* A press of the button `word` of order id
Press(word, id, cbId) ==
    [shape |-> "callback", hasData |-> TRUE, data |-> Token(word, id), cbId |-> cbId,
     msg |-> OrderMessage]

\* The request answered last was a button press that was applied
Applied(word) == last.kind = "webhook" /\ last.at = "L532" /\ last.action = word

\* One order taken through the whole workflow, each request after the
\* previous one was answered: checkout of one item, receipt upload, the
\* presses accept, way, deliver, and accept once more
E2ENext ==
    \E h \in Procs :
        \/ AllIdle /\ last.kind = "none" /\ Checkout(h, <<PlainLine>>, TRUE)
        \/ AllIdle /\ last.kind = "checkout" /\ last.at = "L372"
              /\ \E file \in Files : PaymentOpen(h, TRUE, last.id, "POST", file)
        \/ AllIdle /\ last.kind = "payment" /\ last.at = "L411"
              /\ \E c \in BOOLEAN : WebhookReceive(h, Press("accept", last.id, c))
        \/ AllIdle /\ Applied("accept")
              /\ \E c \in BOOLEAN : WebhookReceive(h, Press("way", last.id, c))
        \/ AllIdle /\ Applied("way")
              /\ \E c \in BOOLEAN : WebhookReceive(h, Press("deliver", last.id, c))
        \/ AllIdle /\ Applied("deliver")
              /\ \E c \in BOOLEAN : WebhookReceive(h, Press("accept", last.id, c))
        \/ Continue(h)

E2ESpec == Init /\ [][E2ENext]_vars

\* Orders of one item whose receipt is uploaded by their owner, and every
\* callback, for any message, one request after the other
GatewayNext ==
    \E h \in Procs :
        \/ AllIdle /\ Checkout(h, <<PlainLine>>, TRUE)
        \/ AllIdle /\ \E id \in OrderIds : PaymentOpen(h, TRUE, id, "POST", "r1")
        \/ AllIdle /\ \E body \in AllBodies : WebhookReceive(h, body)
        \/ Continue(h)

GatewaySpec == Init /\ [][GatewayNext]_vars

\* Requests served concurrently while the bot API answers every edit with ok
DisplayInit == Init /\ botToken

DisplayNext ==
    \E h \in Procs :
        \/ Begin(h)
        \/ CheckoutItems(h)
        \/ PaymentSave(h)
        \/ PaymentNotify(h)
        \/ WebhookSave(h)
        \/ WebhookEdit(h, "ok", "ok")

DisplaySpec == DisplayInit /\ [][DisplayNext]_vars

(* ----------------------------- the operator ---------------------------- *)
\* The operator presses a button the chat shows on the message of an order
OperatorPress(h) ==
    \E i \in OrderIds, c \in BOOLEAN :
        \E k \in 1..Len(shown.kb[i]) :
            WebhookReceive(h, [shape |-> "callback", hasData |-> TRUE,
                               data |-> shown.kb[i][k], cbId |-> c,
                               msg |-> OrderMessage])

OperatorInit ==
    /\ orders = [i \in OrderIds |-> NoOrder]
    /\ pc = [h \in Procs |-> "idle"]
    /\ loc = [h \in Procs |-> NoLoc]
    /\ last = NoLast
    /\ calls = <<>>
    /\ step = [op |-> "none", h |-> 0]
    /\ botToken \in BOOLEAN
    /\ chatId \in BOOLEAN
    /\ clientChat \in BOOLEAN
    /\ watches = [w \in WatchIds |-> IF w = 1 THEN 10 ELSE 5]
    /\ shown = AtChat

\* Orders of one item whose receipt is uploaded by their owner, and an
\* operator who presses only buttons the chat shows, one request after the
\* other
OperatorNext ==
    \E h \in Procs :
        \/ AllIdle /\ Checkout(h, <<PlainLine>>, TRUE)
        \/ AllIdle /\ \E id \in OrderIds : PaymentOpen(h, TRUE, id, "POST", "r1")
        \/ AllIdle /\ OperatorPress(h)
        \/ Continue(h)

\* A handler that has begun runs to its response, and the operator keeps
\* pressing as long as the chat shows a button
OperatorSpec ==
    /\ OperatorInit
    /\ [][OperatorNext]_vars
    /\ \A h \in Procs : WF_vars(Continue(h))
    /\ WF_vars(\E h \in Procs : AllIdle /\ OperatorPress(h))

(* ------------------------------- pricing ------------------------------- *)
\* WatchAdmin: the price of a watch is edited in the admin
AdminSetPrice(w, p) ==
    /\ step' = [op |-> "AdminSetPrice", h |-> 0]
    /\ watches' = [watches EXCEPT ![w] = p]
    /\ calls' = <<>>
    /\ UNCHANGED <<orders, pc, loc, last, botToken, chatId, clientChat, shown>>

\* The checkout of one order with any cart, and price changes in the admin
\* before, during and after it
PriceNext ==
    \/ \E h \in Procs, cart \in AllCarts :
           AllIdle /\ last.kind = "none" /\ Checkout(h, cart, TRUE)
    \/ \E h \in Procs : CheckoutItems(h)
    \/ \E w \in WatchIds, p \in Prices : AdminSetPrice(w, p)

PriceSpec == Init /\ [][PriceNext]_vars

(* ------------------------------ rendering ------------------------------ *)
\* The Order rows build_keyboard may be given
RenderRows ==
    [status : STATUS_CHOICES, receipt : {"none", "r1"}, note : {""},
     items : {<<PlainLine>>}]

\* build_keyboard(order) for the row i
Render(i) ==
    /\ step' = [op |-> "Render", h |-> 0]
    /\ last' = [kind |-> "render", at |-> "L182",
                resp |-> BuildKeyboard(orders[i].status, i), id |-> i, action |-> ""]
    /\ calls' = <<>>
    /\ UNCHANGED <<orders, pc, loc, config, shown>>

RenderNext == \E i \in OrderIds : Render(i)

RenderInit ==
    /\ orders \in [OrderIds -> RenderRows]
    /\ pc = [h \in Procs |-> "idle"]
    /\ loc = [h \in Procs |-> NoLoc]
    /\ last = NoLast
    /\ calls = <<>>
    /\ step = [op |-> "none", h |-> 0]
    /\ botToken \in BOOLEAN
    /\ chatId \in BOOLEAN
    /\ clientChat \in BOOLEAN
    /\ watches = [w \in WatchIds |-> IF w = 1 THEN 10 ELSE 5]
    /\ shown = NoOperator

\* build_keyboard applied to every row
RenderSpec == RenderInit /\ [][RenderNext]_vars

(* ------------------------------- claims -------------------------------- *)
\* The edges of the status graph; the first is the creation of the row
LegalEdges ==
    {<<"none", "awaiting_payment">>, <<"awaiting_payment", "new">>,
     <<"new", "accepted">>, <<"new", "cancelled">>,
     <<"accepted", "in_progress">>, <<"in_progress", "delivered">>}

\* A bot API request that notifies somebody (everything but the callback answer)
Notifies(c) == c.method # "answerCallbackQuery"

\* C1: under any interleaving of receipt uploads and webhook events, every
\* change of an order's persisted status follows an edge of the status graph
\* (so a status never moves backwards and a terminal status never changes).
C1_StatusFollowsEdges ==
    [][\A i \in OrderIds :
          orders'[i].status # orders[i].status
              => <<orders[i].status, orders'[i].status>> \in LegalEdges]_vars

\* C2: of two approve events handled concurrently for one order, at most one
\* writes the status new -> accepted: no two handlers have both saved it.
C2_ApproveAppliedOnce ==
    ~ \E g, h \in Procs :
          /\ g # h
          /\ pc[g] = "wh_edit" /\ pc[h] = "wh_edit"
          /\ loc[g].saved /\ loc[h].saved
          /\ loc[g].id = loc[h].id
          /\ loc[g].action = "accept" /\ loc[h].action = "accept"

\* C3: every notification caused by a transition is issued after the handler
\* has written the new status to the order.
C3_NotifyAfterWrite ==
    \A k \in 1..Len(calls) : (Notifies(calls[k]) /\ calls[k].sent) => calls[k].saved

\* C4: every POST to the webhook is answered 200 {"ok": true}.
C4_WebhookAlwaysOk ==
    last.kind = "webhook" => last.resp = "ok200"

\* The five legal (status, action) pairs; the handlers spell approve, reject
\* and ship as accept, cancel and way
LegalPair(status, word) ==
    <<status, word>> \in
        {<<"awaiting_payment", "submit_receipt">>, <<"new", "accept">>,
         <<"new", "cancel">>, <<"accepted", "way">>, <<"in_progress", "deliver">>}

\* The step of worker h answers its request, writes no order and notifies nobody
RejectedStep(h) ==
    /\ orders' = orders
    /\ pc'[h] = "idle"
    /\ \A k \in 1..Len(calls') : ~Notifies(calls'[k])

\* C5: a request whose (current status, action) is not one of the five legal
\* pairs is rejected: no field of the order changes and nobody is notified.
\* (A step of a handler's first part that is not a rejection is the step of
\* no such request.)
C5_IllegalPairRejected ==
    [][\A h \in Procs :
          \/ step' \notin {[op |-> "WebhookReceive", h |-> h], [op |-> "PaymentOpen", h |-> h]}
          \/ RejectedStep(h)
          \/ \A i \in OrderIds :
                (orders[i].status # "none") =>
                   /\ \A word \in ActionWords, c \in BOOLEAN :
                          ~LegalPair(orders[i].status, word)
                              => ~WebhookReceive(h, Press(word, i, c))
                   /\ \A own \in BOOLEAN, file \in Files \cup {"none"} :
                          ~LegalPair(orders[i].status, "submit_receipt")
                              => ~PaymentOpen(h, own, i, "POST", file)]_vars

\* C5 witness: a press was discarded by the else branch for an order in status new
C5_Witness ==
    /\ last.kind = "webhook" /\ last.at = "L485"
    /\ AllIdle
    /\ orders[last.id].status = "new"

\* The step of worker h answers a webhook request 200 {"ok": true} and
\* writes no order
DiscardedStep(h) ==
    /\ orders' = orders
    /\ pc'[h] = "idle"
    /\ last'.kind = "webhook" /\ last'.resp = "ok200"

\* C6: a press for an order id without a row, or for an order whose status is
\* cancelled or delivered, changes no order and is answered 200 {"ok": true}.
C6_UnknownOrTerminalIgnored ==
    [][\A h \in Procs :
          \/ step' # [op |-> "WebhookReceive", h |-> h]
          \/ DiscardedStep(h)
          \/ \A i \in AnyIds :
                (i \notin OrderIds \/ orders[i].status \in {"none", "cancelled", "delivered"})
                    => \A word \in ActionWords, c \in BOOLEAN :
                           ~WebhookReceive(h, Press(word, i, c))]_vars

\* C6 witness: a press was discarded for a delivered order
C6_Witness ==
    /\ last.kind = "webhook" /\ last.at = "L454" /\ last.resp = "ok200"
    /\ AllIdle
    /\ orders[last.id].status = "delivered"

\* C7: a callback whose token has no ":" (an empty or missing token included)
\* is discarded without an exception and without changing any order.
C7_NoDelimiterDiscarded ==
    [][\A h \in Procs :
          \/ step' # [op |-> "WebhookReceive", h |-> h]
          \/ DiscardedStep(h)
          \/ \A b \in Bodies :
                (b.shape = "callback" /\ \A k \in 1..Len(b.data) : b.data[k] # ":")
                    => ~WebhookReceive(h, b)]_vars

\* C7 witness: such a callback was discarded while an order awaited a decision
C7_Witness ==
    /\ last.kind = "webhook" /\ last.at = "L446" /\ last.resp = "ok200"
    /\ \E i \in OrderIds : orders[i].status = "new"

\* C8: a receipt upload for an order that has a receipt is rejected whatever
\* the status: receipt and status stay and the operator is not notified.
C8_SecondReceiptRejected ==
    [][\A h \in Procs :
          \/ step' # [op |-> "PaymentOpen", h |-> h]
          \/ orders' = orders /\ pc'[h] = "idle" /\ calls' = <<>>
          \/ \A i \in OrderIds :
                (orders[i].receipt # "none")
                    => \A own \in BOOLEAN, file \in Files \cup {"none"} :
                           ~PaymentOpen(h, own, i, "POST", file)]_vars

\* C8 witness: an upload was refused because the order in status new has a receipt
C8_Witness ==
    /\ last.kind = "payment" /\ last.at = "L394"
    /\ orders[last.id].status = "new" /\ orders[last.id].receipt # "none"

\* C9: when the press that was just applied is delivered again, with no
\* request in between, the second delivery does not apply the edge again:
\* the order and the set of notifications stay as after the first delivery.
C9_ReplayNotReapplied ==
    [][\A h \in Procs :
          \/ step' # [op |-> "WebhookReceive", h |-> h]
          \/ RejectedStep(h) /\ last'.resp = "ok200"
          \/ \A i \in OrderIds, word \in ActionWords, c \in BOOLEAN :
                (AllIdle /\ Applied(word) /\ last.id = i)
                    => ~WebhookReceive(h, Press(word, i, c))]_vars

\* C9 witness: a press was discarded for the order that an accept press had
\* moved to accepted
C9_Witness ==
    /\ last.kind = "webhook" /\ last.at = "L485"
    /\ AllIdle
    /\ orders[last.id].status = "accepted" /\ orders[last.id].note = "confirmed"

\* The status after each request of the end-to-end run
E2EStages ==
    AllIdle =>
        /\ last.kind = "checkout" =>
               /\ last.at = "L372"
               /\ orders[last.id].status = "awaiting_payment"
        /\ last.kind = "payment" =>
               /\ last.at = "L411"
               /\ orders[last.id].status = "new"
        /\ last.kind = "webhook" =>
               \/ Applied("accept") /\ orders[last.id].status = "accepted"
               \/ Applied("way") /\ orders[last.id].status = "in_progress"
               \/ Applied("deliver") /\ orders[last.id].status = "delivered"
               \/ last.at = "L454" /\ orders[last.id].status = "delivered"

\* C10: checkout of one item, receipt upload and the presses accept, way,
\* deliver, one after the other, take the order through awaiting_payment,
\* new, accepted, in_progress to delivered; one more accept press then
\* changes nothing.
C10_EndToEnd ==
    /\ []E2EStages
    /\ [][(AllIdle /\ Applied("deliver")) =>
             (orders' = orders /\ AllIdle' /\ \A k \in 1..Len(calls') : ~Notifies(calls'[k]))]_vars

\* C10 witness: the run is over, the last accept press was discarded
C10_Witness ==
    /\ AllIdle
    /\ last.kind = "webhook" /\ last.at = "L454"
    /\ orders[last.id].status = "delivered" /\ Len(orders[last.id].items) = 1

\* The words and the order ids that the handler reads from the tokens of a
\* keyboard
ButtonWords(kb) == [k \in 1..Len(kb) |-> SplitToken(kb[k]).action]

ButtonIds(kb) == [k \in 1..Len(kb) |-> ParseInt(SplitToken(kb[k]).order_id)]

\* C11: the keyboard rendered for an order is decided by its status: accept
\* and cancel for new, way for accepted, deliver for in_progress, no button
\* for awaiting_payment, delivered and cancelled; every token carries the id
\* of the rendered order.
C11_KeyboardByStatus ==
    last.kind = "render" =>
        LET status == orders[last.id].status
            kb == last.resp
        IN  /\ ButtonWords(kb) =
                  (IF status = "new" THEN <<(<<"accept">>), (<<"cancel">>)>>
                   ELSE IF status = "accepted" THEN <<(<<"way">>)>>
                   ELSE IF status = "in_progress" THEN <<(<<"deliver">>)>>
                   ELSE <<>>)
            /\ \A k \in 1..Len(kb) : ButtonIds(kb)[k] = last.id

\* C11 witness: the two buttons of an order in status new were rendered
C11_Witness ==
    /\ last.kind = "render"
    /\ orders[last.id].status = "new"
    /\ Len(last.resp) = 2

\* C12: when the operator notification of a receipt upload is made and its
\* text message is delivered, the operator has a delivered message with the
\* accept and cancel buttons of the order, whatever became of the photo.
C12_OperatorGetsButtons ==
    (/\ step.op = "PaymentNotify"
     /\ \E k \in 1..Len(calls) : calls[k].method = "sendMessage" /\ calls[k].ok)
        => \E k \in 1..Len(calls) :
               /\ calls[k].ok
               /\ calls[k].payload.kb =
                      <<Token("accept", last.id), Token("cancel", last.id)>>

\* C13: after order.save() the handler edits the caption first; the text
\* edit is made if and only if the caption edit returned a failure, and it
\* carries the text, the keyboard, the chat and the message of the caption
\* edit, which are those of the event and of the saved order.
C13_CaptionThenText ==
    [][\A h \in Procs :
          /\ step' = [op |-> "WebhookEdit", h |-> h] =>
                /\ Len(calls') \in {1, 2}
                /\ calls'[1].method = "editMessageCaption"
                /\ calls'[1].payload =
                       Payload(loc[h].id,
                               BuildKeyboard(orders[loc[h].id].status, loc[h].id),
                               loc[h].msg, orders[loc[h].id].status)
                /\ calls'[1].ok <=> Len(calls') = 1
                /\ Len(calls') = 2 =>
                       /\ calls'[2].method = "editMessageText"
                       /\ calls'[2].payload = calls'[1].payload
          /\ (step' = [op |-> "WebhookReceive", h |-> h] /\ pc'[h] = "wh_save") =>
                \A b \in AllBodies :
                    b.msg # loc'[h].msg => ~WebhookReceive(h, b)]_vars

\* C13 witness: the caption edit of an event without a message was sent and
\* failed, and the text edit followed
C13_Witness ==
    /\ step.op = "WebhookEdit"
    /\ Len(calls) = 2
    /\ calls[1].sent /\ ~calls[1].ok
    /\ calls[2].method = "editMessageText" /\ calls[2].payload.msg = "none"

\* C14: when a handler that applied a transition has finished, the order has
\* the status of the transition, whatever the bot API calls returned: new
\* after a receipt upload, accepted, cancelled, in_progress or delivered
\* after the press of accept, cancel, way or deliver.
C14_StatusWrittenWhateverGateway ==
    AllIdle =>
        /\ (last.kind = "payment" /\ last.at = "L411") => orders[last.id].status = "new"
        /\ Applied("accept") => orders[last.id].status = "accepted"
        /\ Applied("cancel") => orders[last.id].status = "cancelled"
        /\ Applied("way") => orders[last.id].status = "in_progress"
        /\ Applied("deliver") => orders[last.id].status = "delivered"
        /\ (last.kind = "webhook" /\ last.at = "L532") =>
               last.action \in {"accept", "cancel", "way", "deliver"}

\* C14 witness: the press of accept was applied although both edits were
\* sent and failed
C14_Witness ==
    /\ AllIdle /\ Applied("accept")
    /\ orders[last.id].status = "accepted"
    /\ Len(calls) = 2 /\ calls[1].sent /\ ~calls[1].ok /\ ~calls[2].ok

\* The number of answerCallbackQuery calls among cs
AckCount(cs) ==
    Cardinality({k \in 1..Len(cs) : cs[k].method = "answerCallbackQuery"})

\* C15: the handler of a callback that carries a callback id calls
\* answerCallbackQuery exactly once: as the first call of its first step,
\* which writes no order, whether it then discards or applies the event, and
\* never in its later steps.
C15_AcknowledgedOnceFirst ==
    [][\A h \in Procs :
          /\ \/ step' # [op |-> "WebhookReceive", h |-> h]
             \/ /\ orders' = orders
                /\ AckCount(calls') = 1
                /\ calls'[1].method = "answerCallbackQuery"
             \/ \A b \in AllBodies :
                    (b.shape = "callback" /\ b.cbId) => ~WebhookReceive(h, b)
          /\ step'.op \in {"WebhookSave", "WebhookEdit"} => AckCount(calls') = 0]_vars

\* C15 witness: a press that is being applied was acknowledged by a request
\* to the bot API
C15_Witness ==
    /\ step.op = "WebhookReceive"
    /\ \E h \in Procs : pc[h] = "wh_save"
    /\ Len(calls) >= 1
    /\ calls[1].method = "answerCallbackQuery" /\ calls[1].sent

\* C16: when every edit succeeds, then, once all handlers have finished, the
\* buttons that the last edit put on the operator's message are those that
\* build_keyboard yields for the persisted status of the order.
C16_DisplayMatchesStatus ==
    (AllIdle /\ step.op = "WebhookEdit" /\ calls[1].ok)
        => calls[1].payload.kb = BuildKeyboard(orders[last.id].status, last.id)

\* The status that the edge of a word leads to
EdgeTarget(word) ==
    CASE word = "submit_receipt" -> "new"
      [] word = "accept" -> "accepted"
      [] word = "cancel" -> "cancelled"
      [] word = "way" -> "in_progress"
      [] word = "deliver" -> "delivered"
      [] OTHER -> "none"

\* Without a bot token, the first step of the handler of a legal request
\* goes on to the save of the order with the status of the edge
LegalRequestProceeds(h) ==
    /\ \/ step' # [op |-> "WebhookReceive", h |-> h]
       \/ pc'[h] = "wh_save" /\ loc'[h].obj.status = EdgeTarget(loc'[h].action)
       \/ \A i \in OrderIds, word \in {"accept", "cancel", "way", "deliver"}, c \in BOOLEAN :
              LegalPair(orders[i].status, word) => ~WebhookReceive(h, Press(word, i, c))
    /\ \/ step' # [op |-> "PaymentOpen", h |-> h]
       \/ pc'[h] = "pp_save" /\ loc'[h].obj.status = "new"
       \/ \A i \in OrderIds :
              (orders[i].status = "awaiting_payment" /\ orders[i].receipt = "none")
                  => ~PaymentOpen(h, TRUE, i, "POST", "r1")
    /\ step' \in {[op |-> "WebhookSave", h |-> h], [op |-> "PaymentSave", h |-> h]}
           => orders'[loc[h].id].status = EdgeTarget(loc[h].action)

\* C17: without a bot token every bot API call returns a failure and makes no
\* request, and the handlers apply the legal transitions all the same: a
\* legal upload or press goes on to the save, the save writes the status of
\* the edge, and the order has it when the handler has finished.
C17_NoTokenNoRequestSameTransitions ==
    /\ [](~botToken =>
             /\ \A k \in 1..Len(calls) : ~calls[k].sent /\ ~calls[k].ok
             /\ (AllIdle /\ last.at \in {"L411", "L532"})
                    => orders[last.id].status = EdgeTarget(last.action))
    /\ [][~botToken => \A h \in Procs : LegalRequestProceeds(h)]_vars

\* C17 witness: without a bot token the press of accept was applied; both
\* edits were called and neither made a request
C17_Witness ==
    /\ ~botToken
    /\ AllIdle /\ Applied("accept")
    /\ orders[last.id].status = "accepted"
    /\ Len(calls) = 2 /\ ~calls[1].sent /\ ~calls[2].sent

\* C18: under any interleaving of the handlers, an order whose persisted
\* status is new, accepted, in_progress, delivered or cancelled has a
\* payment receipt.
C18_ReceiptFromNewOn ==
    \A i \in OrderIds :
        orders[i].status \in {"new", "accepted", "in_progress", "delivered", "cancelled"}
            => orders[i].receipt # "none"

\* C18 witness: an order was cancelled while two handlers were at work on it
C18_Witness ==
    \E i \in OrderIds :
        /\ orders[i].status = "cancelled" /\ orders[i].receipt # "none"
        /\ \A h \in Procs : pc[h] # "idle" /\ loc[h].id = i

\* C19: under any interleaving of the handlers, an order whose persisted
\* status is new, accepted, in_progress, delivered or cancelled has at least
\* one line item.
C19_ItemsFromNewOn ==
    \A i \in OrderIds :
        orders[i].status \in {"new", "accepted", "in_progress", "delivered", "cancelled"}
            => orders[i].items # <<>>

\* The sum of price times quantity over line items
RECURSIVE CapturedSum(_)
CapturedSum(items) ==
    IF items = <<>> THEN 0
    ELSE Head(items).price * Head(items).quantity + CapturedSum(Tail(items))

\* C20: the total_amount of an order is the sum of price times quantity of
\* its line items, the prices being those written at checkout (25 for the
\* items (10, 2) and (5, 1)); a change of a watch's price in the admin
\* changes no line item and no total_amount.
C20_TotalFromCapturedPrices ==
    /\ [](\A i \in OrderIds :
             LET items == orders[i].items IN
             /\ TotalAmount(i) = CapturedSum(items)
             /\ (/\ Len(items) = 2
                 /\ items[1].price = 10 /\ items[1].quantity = 2
                 /\ items[2].price = 5 /\ items[2].quantity = 1)
                    => TotalAmount(i) = 25)
    /\ [][step'.op = "AdminSetPrice" =>
             \A i \in OrderIds :
                 /\ orders'[i].items = orders[i].items
                 /\ TotalAmount(i)' = TotalAmount(i)]_vars

\* C20 witness: the order with the items (10, 2) and (5, 1) has the total 25
\* after the price of its first watch was changed from 10 to 5
C20_Witness ==
    /\ step.op = "AdminSetPrice"
    /\ \E i \in OrderIds :
           LET items == orders[i].items IN
           /\ Len(items) = 2
           /\ items[1] = [watch |-> 1, quantity |-> 2, price |-> 10]
           /\ items[2] = [watch |-> 2, quantity |-> 1, price |-> 5]
           /\ TotalAmount(i) = 25
           /\ watches[1] = 5

\* C21 (as the code has it): every token the renderer puts on a button is
\* "<action>:<order_id>": one word, the delimiter ":", and the id of the
\* rendered order, where the word is one of the four the webhook handler
\* tests: accept, cancel, way, deliver.
C21_TokenOfHandlerWords ==
    last.kind = "render" =>
        \A k \in 1..Len(last.resp) :
            LET t == last.resp[k]
                parts == SplitToken(t)
            IN  /\ Len(t) = 3 /\ t[2] = ":"
                /\ parts.ok
                /\ parts.action = <<t[1]>> /\ t[1] \in HandlerWords
                /\ parts.order_id = <<IdStr(last.id)>>

\* C21 witness: the way button of an accepted order was rendered
C21_Witness ==
    /\ last.kind = "render"
    /\ orders[last.id].status = "accepted"
    /\ last.resp = <<(<<"way", ":", IdStr(last.id)>>)>>

\* C21: every token the renderer puts on a button is "<action>:<order_id>"
\* with ":" as delimiter, where <action> is one of the five action literals
\* submit_receipt, approve, reject, ship, deliver and <order_id> is the id of
\* the rendered order.
C21_TokenOfEngineLiterals ==
    last.kind = "render" =>
        \A k \in 1..Len(last.resp) :
            LET t == last.resp[k]
                parts == SplitToken(t)
            IN  /\ Len(t) = 3 /\ t[2] = ":"
                /\ parts.ok
                /\ parts.action = <<t[1]>>
                /\ t[1] \in {"submit_receipt", "approve", "reject", "ship", "deliver"}
                /\ parts.order_id = <<IdStr(last.id)>>

\* The requests among cs that put the decision buttons of order i before the
\* operator: a delivered sendPhoto or sendMessage whose reply_markup has
\* buttons
Prompts(cs, i) ==
    {k \in 1..Len(cs) : /\ cs[k].method \in {"sendPhoto", "sendMessage"}
                        /\ cs[k].ok
                        /\ cs[k].payload.id = i
                        /\ cs[k].payload.kb # <<>>}

\* C22: the operator decision prompt of an order is sent at most once over
\* the order's lifetime, also when two receipt uploads for the order are
\* handled concurrently: checkout sends none, one step sends at most one,
\* and no step sends the prompt of an order whose prompt was sent before.
\* (calls holds the requests of the latest step, so the formula names the
\* second prompt that directly follows the first.)
C22_PromptAtMostOnce ==
    [][\A i \in OrderIds :
          /\ step'.op \in {"Checkout", "CheckoutItems"} => Prompts(calls', i) = {}
          /\ Cardinality(Prompts(calls', i)) <= 1
          /\ Prompts(calls, i) # {} => Prompts(calls', i) = {}]_vars

\* The tokens on the buttons build_keyboard renders for the stored order i
Offered(i) ==
    LET kb == BuildKeyboard(orders[i].status, i) IN {kb[k] : k \in 1..Len(kb)}

\* The callbacks that carry a token rendered for the stored order i
OfferedBodies(i) ==
    {[shape |-> "callback", hasData |-> TRUE, data |-> t, cbId |-> c, msg |-> m] :
        t \in Offered(i), c \in BOOLEAN, m \in MessageIds}

\* If the step is worker h handling `body`, whose token is on a button
\* rendered for order i in its stored status, the token is read as order i
\* and a legal transition of order i is applied
OfferedTokenApplied(h, i, body) ==
    WebhookReceive(h, body) =>
        /\ pc'[h] = "wh_save"
        /\ loc'[h].id = i
        /\ <<orders[i].status, loc'[h].obj.status>> \in LegalEdges

\* The action and the order a token is read as
Reading(data) ==
    <<SplitToken(data).action, ParseInt(SplitToken(data).order_id)>>

\* C23 (as the code has it): every token rendered for an order in status s,
\* handled while the order is in s, is read as that order and applies a legal
\* transition; and every token the handler applies in status s is read as
\* the action and the order of a token rendered for s (the id is read by
\* int(), which takes "01" for 1).
C23_TokenProtocolByReading ==
    [][\A h \in Procs :
          step' = [op |-> "WebhookReceive", h |-> h] =>
              /\ \A i \in OrderIds :
                     \A body \in OfferedBodies(i) : OfferedTokenApplied(h, i, body)
              /\ pc'[h] = "wh_save" =>
                     \A body \in AllBodies :
                         WebhookReceive(h, body) =>
                             \E t \in Offered(loc'[h].id) :
                                 Reading(t) = Reading(body.data)]_vars

\* C23 witness: the token way:1, rendered for accepted, was applied to the
\* accepted order 1
C23_Witness ==
    /\ step.op = "WebhookReceive"
    /\ pc[step.h] = "wh_save"
    /\ loc[step.h].action = "way"
    /\ orders[loc[step.h].id].status = "accepted"
    /\ Token("way", loc[step.h].id) \in Offered(loc[step.h].id)

\* C23: every token rendered for an order in status s, handled while the
\* order is in s, is read as that order and applies a legal transition; and
\* the handler applies no token in status s that the renderer does not
\* offer for s.
C23_TokenProtocol ==
    [][\A h \in Procs :
          step' = [op |-> "WebhookReceive", h |-> h] =>
              /\ \A i \in OrderIds :
                     \A body \in OfferedBodies(i) : OfferedTokenApplied(h, i, body)
              /\ pc'[h] = "wh_save" =>
                     \A body \in AllBodies :
                         WebhookReceive(h, body) => body.data \in Offered(loc'[h].id)]_vars

\* Every bot API request of the latest step was delivered
GatewayOk == \A k \in 1..Len(calls) : calls[k].ok

\* C24: if the operator keeps pressing a button the chat shows on the
\* order's message, every press is handled, and from some time on every
\* gateway call succeeds, then every order in status new whose decision
\* buttons are on the chat eventually reaches delivered or cancelled, also
\* after an edit has failed.
C24_OrderAdvances ==
    \A i \in OrderIds :
        <>[]GatewayOk =>
            ((orders[i].status = "new" /\ shown.kb[i] # <<>>)
                 ~> Terminal(orders[i].status))

====
